---------------------------- MODULE Spec2Model ----------------------------
(***************************************************************************)
(* Address correction: AddressVectorizer (character n-gram TF-IDF + SVD),  *)
(* AddressMatcher (vector retrieval + string-similarity rerank),           *)
(* build_index and the pgvector store they talk to.                        *)
(*                                                                         *)
(* Text is a sequence of one-character strings.  Floats are fixed point:   *)
(* similarities and weights in hundredths, fused scores and confidences in *)
(* millionths, TF-IDF weights in hundredths.  An optional value (Python    *)
(* None or a value) is a sequence of length 0 or 1.                        *)
(***************************************************************************)
EXTENDS Integers, Sequences, FiniteSets, TLC

(***************************************************************************)
(* Bounds of the model.                                                    *)
(***************************************************************************)
MaxComponents == 3      \* requested n_components range over 1..MaxComponents
MaxTopK == 2            \* the matcher's top_k is 1 or MaxTopK

(***************************************************************************)
(* Program constants.                                                      *)
(***************************************************************************)
max_features == 50000           \* TfidfVectorizer(max_features=50_000)
default_threshold == 45         \* confidence_threshold = 0.45
default_vendor_weight == 50     \* vendor_weight = 0.5
default_address_weight == 30    \* address_weight = 0.3
default_embedding_weight == 20  \* embedding_weight = 0.2
initial_best_score == -1000000  \* best_score = -1.0

None == << >>
Some(x) == << x >>

(***************************************************************************)
(* Strings.                                                                *)
(***************************************************************************)
Sp == " "

\* str.lower() on one character
LowerChar(c) ==
    CASE c = "A" -> "a"
      [] c = "B" -> "b"
      [] c = "C" -> "c"
      [] c = "E^" -> "e^"
      [] OTHER -> c

\* str.lower()
Lower(s) == [i \in 1..Len(s) |-> LowerChar(s[i])]

\* strip_accents="unicode": an accented letter becomes its base letter
StripAccentChar(c) ==
    CASE c = "e^" -> "e"
      [] c = "E^" -> "E"
      [] OTHER -> c

StripAccents(s) == [i \in 1..Len(s) |-> StripAccentChar(s[i])]

\* f"{vendor_name} {address}".lower()
_prepare_text(vendor_name, address) == Lower(vendor_name \o <<Sp>> \o address)

\* zip(xs, ys): pairs up to the shorter list
Zip(xs, ys) ==
    LET n == IF Len(xs) < Len(ys) THEN Len(xs) ELSE Len(ys)
    IN  [i \in 1..n |-> <<xs[i], ys[i]>>]

\* [self._prepare_text(v, a) for v, a in zip(vendor_names, addresses)]
PrepareTexts(vendor_names, addresses) ==
    LET z == Zip(vendor_names, addresses)
    IN  [i \in 1..Len(z) |-> _prepare_text(z[i][1], z[i][2])]

\* str.split(): the maximal runs of non-space characters
RECURSIVE SplitWords(_, _, _)
SplitWords(s, i, cur) ==
    IF i > Len(s)
    THEN IF cur = << >> THEN << >> ELSE <<cur>>
    ELSE IF s[i] = Sp
         THEN (IF cur = << >> THEN << >> ELSE <<cur>>) \o SplitWords(s, i + 1, << >>)
         ELSE SplitWords(s, i + 1, Append(cur, s[i]))

\* w[offset:offset+n], Python slicing: cut at the end of the string
Slice(w, offset, n) ==
    LET hi == IF offset + n > Len(w) THEN Len(w) ELSE offset + n
    IN  [k \in 1..(hi - offset) |-> w[offset + k]]

\* the inner while loop of the char_wb analyzer for one n
RECURSIVE SlideFrom(_, _, _)
SlideFrom(w, n, offset) ==
    IF offset + n < Len(w)
    THEN <<Slice(w, offset + 1, n)>> \o SlideFrom(w, n, offset + 1)
    ELSE << >>

\* the n-grams of one padded word, for n = lo .. hi; a word shorter than n
\* is counted once and ends the loop over n
RECURSIVE WordNgrams(_, _, _)
WordNgrams(w, lo, hi) ==
    IF lo > hi
    THEN << >>
    ELSE LET rest == SlideFrom(w, lo, 0)
         IN  <<Slice(w, 0, lo)>> \o rest \o
             (IF rest = << >> THEN << >> ELSE WordNgrams(w, lo + 1, hi))

RECURSIVE ConcatNgrams(_, _, _)
ConcatNgrams(words, i, ngram_range) ==
    IF i > Len(words)
    THEN << >>
    ELSE WordNgrams(<<Sp>> \o words[i] \o <<Sp>>, ngram_range[1], ngram_range[2])
         \o ConcatNgrams(words, i + 1, ngram_range)

\* analyzer="char_wb" after the preprocessor (lowercase, strip accents):
\* the list of n-grams of a document, inside word boundaries
Analyze(text, ngram_range) ==
    ConcatNgrams(SplitWords(StripAccents(Lower(text)), 1, << >>), 1, ngram_range)

RangeOf(seq) == {seq[i] : i \in 1..Len(seq)}

\* term frequency of t in a list of n-grams
Count(grams, t) == Cardinality({i \in 1..Len(grams) : grams[i] = t})

(***************************************************************************)
(* Inputs.                                                                 *)
(***************************************************************************)
Rec(v, a, city, postcode, country) ==
    [vendor_name |-> v, address |-> a, city |-> city,
     postcode |-> postcode, country |-> country]

R1 == Rec(<<"a", "b">>, <<"1", "c">>, Some("X"), Some("9"), Some("U"))
\* the same vendor and address again, other details, no postcode
R2 == Rec(<<"a", "b">>, <<"1", "c">>, Some("Y"), None, Some("V"))
R3 == Rec(<<"A", "c">>, <<"2", "d">>, Some("Z"), Some("8"), None)
\* a record whose text has a single n-gram
R5 == Rec(<<"e^">>, << >>, None, None, None)
\* a record whose text has no n-gram at all
R0 == Rec(<< >>, << >>, None, None, None)

Corpora == { << >>, <<R0>>, <<R5, R5>>, <<R1, R2, R3>> }

VendorNames(records) == [i \in 1..Len(records) |-> records[i].vendor_name]
Addresses(records) == [i \in 1..Len(records) |-> records[i].address]

\* argument pairs of fit and transform: the columns of a corpus, and lists of
\* different lengths
ListPairs ==
    {<<VendorNames(c), Addresses(c)>> : c \in Corpora}
    \cup {<< <<R1.vendor_name>>, << >> >>}

Queries == { <<R1.vendor_name, R1.address>>, << <<"B">>, <<"E^">> >> }

\* requested dimensionalities: the least one, and the two greatest
NComponents == {1, MaxComponents - 1, MaxComponents}
default_ngram_range == <<3, 5>>
NgramRanges == { default_ngram_range, <<2, 3>> }
TopKs == {1, MaxTopK}
Thresholds == { default_threshold, 100 }
Weights == { <<default_vendor_weight, default_address_weight, default_embedding_weight>> }

VecIds == {1, 2}

\* the prepared texts of these inputs
TextLists == {PrepareTexts(p[1], p[2]) : p \in ListPairs}
Texts ==
    UNION {RangeOf(tl) : tl \in TextLists}
    \cup {_prepare_text(q[1], q[2]) : q \in Queries}

(***************************************************************************)
(* Fixed-point arithmetic.                                                 *)
(***************************************************************************)
Min(a, b) == IF a < b THEN a ELSE b
Max(a, b) == IF a > b THEN a ELSE b

RECURSIVE SumOver(_, _)
SumOver(S, f) ==
    IF S = {} THEN 0
    ELSE LET x == CHOOSE y \in S : TRUE IN f[x] + SumOver(S \ {x}, f)

RECURSIVE IsqrtBetween(_, _, _)
IsqrtBetween(x, lo, hi) ==
    IF lo >= hi THEN lo
    ELSE LET mid == (lo + hi + 1) \div 2
         IN  IF mid * mid <= x THEN IsqrtBetween(x, mid, hi)
                               ELSE IsqrtBetween(x, lo, mid - 1)

\* floor of the square root
Isqrt(x) == IsqrtBetween(x, 0, Min(x, 46340))

\* ln(p/q) in hundredths for p >= q >= 1, by the series 2*atanh((p-q)/(p+q))
Ln100(p, q) ==
    LET z  == ((p - q) * 10000) \div (p + q)
        z2 == (z * z) \div 10000
        z3 == (z * z2) \div 10000
        z5 == (z3 * z2) \div 10000
        z7 == (z5 * z2) \div 10000
        z9 == (z7 * z2) \div 10000
    IN  (2 * (z + z3 \div 3 + z5 \div 5 + z7 \div 7 + z9 \div 9)) \div 100

(***************************************************************************)
(* sklearn's TfidfVectorizer, as AddressVectorizer configures it.          *)
(***************************************************************************)
\* the installed sklearn: does TfidfVectorizer.fit_transform replace its idf
\* transformer before it looks at the documents?  Fixed for a run.
VARIABLE sklearn_resets

\* smooth idf: ln((1 + n) / (1 + df)) + 1, in hundredths
IdfWeight(n_docs, df) == 100 + Ln100(1 + n_docs, 1 + df)

\* the n-grams of every document
Grams(ngram_range, texts) ==
    [i \in 1..Len(texts) |-> Analyze(texts[i], ngram_range)]

\* every n-gram of the corpus
Terms(grams) == UNION {RangeOf(grams[i]) : i \in 1..Len(grams)}

\* occurrences of t in the corpus
TermFreq(grams, t) ==
    SumOver(1..Len(grams), [i \in 1..Len(grams) |-> Count(grams[i], t)])

\* number of documents that contain t
DocFreq(grams, t) == Cardinality({i \in 1..Len(grams) : t \in RangeOf(grams[i])})

\* max_features: keep the most frequent terms of the corpus
LimitFeatures(terms, grams) ==
    IF Cardinality(terms) <= max_features
    THEN terms
    ELSE CHOOSE S \in SUBSET terms :
            /\ Cardinality(S) = max_features
            /\ \A s \in S, t \in terms \ S : TermFreq(grams, s) >= TermFreq(grams, t)

\* the TfidfVectorizer made by AddressVectorizer.__init__: not yet fitted
NewTfidf(ngram_range) ==
    [fitted |-> FALSE, ngram_range |-> ngram_range,
     vocabulary |-> {}, idf |-> << >>]

\* the vectorizer fitted on these n-grams: vocabulary_ and idf_
FittedTfidf(ngram_range, grams, vocab) ==
    [fitted |-> TRUE, ngram_range |-> ngram_range, vocabulary |-> vocab,
     idf |-> [t \in vocab |-> IdfWeight(Len(grams), DocFreq(grams, t))]]

\* norm="l2": the row divided by its Euclidean length, a zero row unchanged
L2Normalize(raw) ==
    LET norm == Isqrt(SumOver(DOMAIN raw, [t \in DOMAIN raw |-> raw[t] * raw[t]]))
    IN  [t \in DOMAIN raw |-> IF norm = 0 THEN 0 ELSE (raw[t] * 100) \div norm]

\* term frequency times idf over the vocabulary; an n-gram outside the
\* vocabulary contributes nothing
RawRow(tfidf, grams) ==
    [t \in tfidf.vocabulary |-> Count(grams, t) * tfidf.idf[t]]

\* one L2-normalised TF-IDF row
TfidfRow(tfidf, text) ==
    L2Normalize(RawRow(tfidf, Analyze(text, tfidf.ngram_range)))

\* what fit_transform gives once the vocabulary is known: ValueError on an
\* empty vocabulary (no document, or no document with an n-gram), else the
\* fitted vectorizer and the TF-IDF matrix of the texts
TfidfFitted(fit, texts) ==
    IF fit.vocabulary = {}
    THEN [error |-> "ValueError", tfidf |-> NewTfidf(fit.ngram_range),
          matrix |-> << >>]
    ELSE [error |-> "none", tfidf |-> fit,
          matrix |-> [i \in 1..Len(texts) |-> TfidfRow(fit, texts[i])]]

TfidfFitOn(ngram_range, texts, grams) ==
    TfidfFitted(FittedTfidf(ngram_range, grams, LimitFeatures(Terms(grams), grams)),
                texts)

\* fitting a TfidfVectorizer of this n-gram range on texts
TfidfFit(ngram_range, texts) ==
    TfidfFitOn(ngram_range, texts, Grams(ngram_range, texts))

\* the fits and rows of the inputs enumerated above, computed once
TfidfFitKeys == NgramRanges \X TextLists

TfidfFitTable == [k \in TfidfFitKeys |-> TfidfFit(k[1], k[2])]

\* the vectorizer a fit_transform call that raises leaves behind: the
\* vocabulary is stored only after it was found non-empty; the installed
\* sklearn either keeps the idf weights too or has already replaced them
\* by unfitted ones when the error is raised
AfterFailedFit(tfidf) ==
    IF sklearn_resets THEN [tfidf EXCEPT !.fitted = FALSE, !.idf = << >>] ELSE tfidf

KeepOnError(tfidf, r) ==
    IF r.error # "none" THEN [r EXCEPT !.tfidf = AfterFailedFit(tfidf)] ELSE r

\* TfidfVectorizer.fit_transform(texts)
TfidfFitTransform(tfidf, texts) ==
    KeepOnError(tfidf,
                IF <<tfidf.ngram_range, texts>> \in TfidfFitKeys
                THEN TfidfFitTable[<<tfidf.ngram_range, texts>>]
                ELSE TfidfFit(tfidf.ngram_range, texts))

FittedTfidfs ==
    {r.tfidf : r \in {x \in {TfidfFitTable[k] : k \in TfidfFitKeys} :
                          x.error = "none"}}

TfidfRowKeys == FittedTfidfs \X Texts

TfidfRowTable == [k \in TfidfRowKeys |-> TfidfRow(k[1], k[2])]

\* TfidfVectorizer.transform(texts): NotFittedError before fit
TfidfTransform(tfidf, texts) ==
    IF ~tfidf.fitted
    THEN [error |-> "NotFittedError", matrix |-> << >>]
    ELSE [error |-> "none",
          matrix |-> [i \in 1..Len(texts) |->
                        IF <<tfidf, texts[i]>> \in TfidfRowKeys
                        THEN TfidfRowTable[<<tfidf, texts[i]>>]
                        ELSE TfidfRow(tfidf, texts[i])]]

(***************************************************************************)
(* sklearn's TruncatedSVD(n_components, random_state=42).  The fixed seed  *)
(* makes components_ a function of the training matrix; the factorisation  *)
(* itself is the library's, and here the first n_components training rows  *)
(* stand for the n_components x vocabulary matrix it returns.              *)
(***************************************************************************)
NoSvd == [kind |-> "None", n_components |-> 0, components |-> << >>]

SvdFit(n_components, matrix) ==
    [kind |-> "TruncatedSVD", n_components |-> n_components,
     components |-> [i \in 1..n_components |-> matrix[i]]]

Dot(row, comp) ==
    SumOver(DOMAIN row, [t \in DOMAIN row |-> row[t] * comp[t]])

\* for comparison: a projection that appends a constant column to every row
SvdTransformBiased(svd, matrix) ==
    [i \in 1..Len(matrix) |->
        Append([k \in 1..svd.n_components |-> Dot(matrix[i], svd.components[k]) \div 100],
               0)]

\* svd.transform(X) = X @ components_.T, then .astype(np.float32): the
\* product is in ten-thousandths and the cast keeps hundredths
SvdTransform(svd, matrix) ==
    [i \in 1..Len(matrix) |->
        [k \in 1..svd.n_components |-> Dot(matrix[i], svd.components[k]) \div 100]]

(***************************************************************************)
(* AddressVectorizer (vectorizer.py).                                      *)
(***************************************************************************)
\* AddressVectorizer.__init__
NewVectorizer(n_components, ngram_range) ==
    [exists |-> TRUE, n_components |-> n_components, ngram_range |-> ngram_range,
     tfidf |-> NewTfidf(ngram_range), svd |-> NoSvd, is_fitted |-> FALSE]

\* no such object (nothing has been loaded yet)
NoVectorizer ==
    [exists |-> FALSE, n_components |-> 0, ngram_range |-> <<0, 0>>,
     tfidf |-> NewTfidf(<<0, 0>>), svd |-> NoSvd, is_fitted |-> FALSE]

\* the dimensions property
Dimensions(self) ==
    IF ~self.is_fitted THEN [error |-> "RuntimeError", value |-> 0]
    ELSE IF self.svd.kind = "None" THEN [error |-> "AssertionError", value |-> 0]
    ELSE [error |-> "none", value |-> self.svd.n_components]

\* for comparison: the clamp without its floor of one component
ComponentsNoFloor(n_components, rows, cols) ==
    Min(n_components, Min(rows, cols) - 1)

\* max_components and actual_components of fit, from the matrix's shape
ActualComponents(n_components, rows, cols) ==
    LET max_components == Min(rows, cols) - 1
    IN  Min(n_components, Max(1, max_components))

\* for comparison: a fit that sets the fitted flag before it fits
FitSvdFlagged(self, ft) ==
    IF ft.error # "none"
    THEN [error |-> ft.error,
          vec |-> [self EXCEPT !.tfidf = ft.tfidf, !.is_fitted = TRUE]]
    ELSE [error |-> "none",
          vec |-> [self EXCEPT !.tfidf = ft.tfidf,
                               !.svd = SvdFit(Min(self.n_components,
                                                  Max(1, Min(Len(ft.matrix),
                                                             Cardinality(ft.tfidf.vocabulary)) - 1)),
                                              ft.matrix),
                               !.is_fitted = TRUE]]

\* the rest of fit once tfidf.fit_transform has returned or raised: the
\* error raised ("none" when fit returns) and the object afterwards
FitSvd(self, ft) ==
    LET rows  == Len(ft.matrix)
        cols  == Cardinality(ft.tfidf.vocabulary)
        actual_components == ActualComponents(self.n_components, rows, cols)
    IN  IF ft.error # "none"
        THEN [error |-> ft.error, vec |-> [self EXCEPT !.tfidf = ft.tfidf]]
        ELSE [error |-> "none",
              vec |-> [self EXCEPT !.tfidf = ft.tfidf,
                                   !.svd = SvdFit(actual_components, ft.matrix),
                                   !.is_fitted = TRUE]]

\* AddressVectorizer.fit
Fit(self, vendor_names, addresses) ==
    FitSvd(self, TfidfFitTransform(self.tfidf, PrepareTexts(vendor_names, addresses)))

\* for comparison: a transform that refits the projection on its own input
TransformEffectRefit(self, X) ==
    [self EXCEPT !.svd = SvdFit(Min(self.svd.n_components, Len(X)), X)]

\* what a call of transform leaves of the object, X being the TF-IDF matrix
\* of the call: it assigns no attribute
TransformEffect(self, X) == self

\* the rest of transform once tfidf.transform has returned or raised
Project(self, tm) ==
    IF tm.error # "none"
    THEN [error |-> tm.error, vectors |-> << >>, vec |-> self]
    ELSE IF self.svd.kind = "None"
    THEN [error |-> "AttributeError", vectors |-> << >>, vec |-> self]
    ELSE [error |-> "none", vectors |-> SvdTransform(self.svd, tm.matrix),
          vec |-> TransformEffect(self, tm.matrix)]

\* for comparison: transform without the check of the fitted flag
TransformUnguarded(self, vendor_names, addresses) ==
    Project(self, TfidfTransform(self.tfidf, PrepareTexts(vendor_names, addresses)))

\* AddressVectorizer.transform: the error raised, the float32 matrix returned
\* (one row per input pair) and the object afterwards
Transform(self, vendor_names, addresses) ==
    IF ~self.is_fitted
    THEN [error |-> "RuntimeError", vectors |-> << >>, vec |-> self]
    ELSE Project(self, TfidfTransform(self.tfidf,
                                      PrepareTexts(vendor_names, addresses)))

\* row 0 of the matrix a transform call returned
Row0(t) ==
    [error |-> t.error,
     vector |-> IF t.error = "none" THEN t.vectors[1] ELSE << >>,
     vec |-> t.vec]

\* AddressVectorizer.transform_one: row 0 of transform([vendor_name], [address])
TransformOne(self, vendor_name, address) ==
    Row0(Transform(self, <<vendor_name>>, <<address>>))

\* joblib.dump(obj, file): the object's attributes, written one after another
JoblibDump(obj, keys) == [i \in 1..Len(keys) |-> <<keys[i], obj[keys[i]]>>]

\* joblib.load(file): the object with the attributes the file lists
JoblibLoad(blob) ==
    [k \in {blob[i][1] : i \in 1..Len(blob)} |->
        blob[CHOOSE i \in 1..Len(blob) : blob[i][1] = k][2]]

TfidfKeys == <<"fitted", "ngram_range", "vocabulary", "idf">>
SvdKeys == <<"kind", "n_components", "components">>

NoFiles == [exists |-> FALSE, tfidf |-> << >>, svd |-> << >>]

\* AddressVectorizer.save: tfidf.joblib and svd.joblib under path
Save(self) ==
    [exists |-> TRUE,
     tfidf |-> JoblibDump(self.tfidf, TfidfKeys),
     svd |-> JoblibDump(self.svd, SvdKeys)]

\* for comparison: a load that does not read n_components off the projection
LoadUnread(files) ==
    IF ~files.exists
    THEN [error |-> "FileNotFoundError", vec |-> NoVectorizer]
    ELSE [error |-> "none",
          vec |-> [exists |-> TRUE,
                   tfidf |-> JoblibLoad(files.tfidf),
                   svd |-> JoblibLoad(files.svd),
                   ngram_range |-> JoblibLoad(files.tfidf).ngram_range,
                   n_components |-> 0,
                   is_fitted |-> TRUE]]

\* for comparison: a load that builds a new TfidfVectorizer instead of
\* reading tfidf.joblib
LoadFreshTfidf(files) ==
    IF ~files.exists
    THEN [error |-> "FileNotFoundError", vec |-> NoVectorizer]
    ELSE IF JoblibLoad(files.svd).kind = "None"
    THEN [error |-> "AttributeError", vec |-> NoVectorizer]
    ELSE [error |-> "none",
          vec |-> [exists |-> TRUE,
                   tfidf |-> NewTfidf(JoblibLoad(files.tfidf).ngram_range),
                   svd |-> JoblibLoad(files.svd),
                   ngram_range |-> JoblibLoad(files.tfidf).ngram_range,
                   n_components |-> JoblibLoad(files.svd).n_components,
                   is_fitted |-> TRUE]]

\* AddressVectorizer.load: FileNotFoundError without the files,
\* AttributeError at vec.svd.n_components when svd.joblib holds None
Load(files) ==
    IF ~files.exists
    THEN [error |-> "FileNotFoundError", vec |-> NoVectorizer]
    ELSE LET tfidf == JoblibLoad(files.tfidf)
             svd   == JoblibLoad(files.svd)
         IN  IF svd.kind = "None"
             THEN [error |-> "AttributeError", vec |-> NoVectorizer]
             ELSE [error |-> "none",
                   vec |-> [exists |-> TRUE,
                            tfidf |-> tfidf,
                            svd |-> svd,
                            ngram_range |-> tfidf.ngram_range,
                            n_components |-> svd.n_components,
                            is_fitted |-> TRUE]]

(***************************************************************************)
(* AddressMatcher (matcher.py).                                            *)
(***************************************************************************)
\* length of a longest common subsequence
RECURSIVE Lcs(_, _, _, _)
Lcs(a, b, i, j) ==
    IF i > Len(a) \/ j > Len(b) THEN 0
    ELSE IF a[i] = b[j] THEN 1 + Lcs(a, b, i + 1, j + 1)
    ELSE Max(Lcs(a, b, i + 1, j), Lcs(a, b, i, j + 1))

\* for comparison: fuzz.ratio left in percent, not divided by 100
FuzzRatioPercent(a, b) ==
    IF Len(a) + Len(b) = 0 THEN 1000000
    ELSE (2 * Lcs(a, b, 1, 1) * 1000000) \div (Len(a) + Len(b))

\* rapidfuzz fuzz.ratio(a, b) / 100.0 in ten-thousandths: the normalised
\* indel similarity 2*lcs/(len(a)+len(b)), 1.0 for two empty strings
FuzzRatio(a, b) ==
    IF Len(a) + Len(b) = 0 THEN 10000
    ELSE (2 * Lcs(a, b, 1, 1) * 10000) \div (Len(a) + Len(b))

\* candidate.get("similarity", 0.0), in hundredths
Similarity(candidate) ==
    IF "similarity" \in DOMAIN candidate THEN candidate.similarity ELSE 0

\* for comparison: a score that takes the store's similarity as it comes,
\* negative values included
ScoreUnclamped(self, vendor_name, address, candidate) ==
    self.vendor_weight * FuzzRatio(Lower(vendor_name), Lower(candidate.vendor_name))
    + self.address_weight * FuzzRatio(Lower(address), Lower(candidate.address))
    + self.embedding_weight * Similarity(candidate) * 100

\* for comparison: a score that ranks by the store's similarity alone
ScoreEmbeddingOnly(self, vendor_name, address, candidate) ==
    self.embedding_weight * Max(0, Similarity(candidate)) * 100

\* AddressMatcher._score, in millionths
_score(self, vendor_name, address, candidate) ==
    LET vendor_sim    == FuzzRatio(Lower(vendor_name), Lower(candidate.vendor_name))
        address_sim   == FuzzRatio(Lower(address), Lower(candidate.address))
        embedding_sim == Max(0, Similarity(candidate)) * 100
    IN  self.vendor_weight * vendor_sim
        + self.address_weight * address_sim
        + self.embedding_weight * embedding_sim

\* for comparison: a loop in which a later candidate with an equal score
\* replaces the best one
BetterOrEqual(score, best_score) == score >= best_score

\* does the loop replace the best candidate seen so far?
Better(score, best_score) == score > best_score

\* the rerank loop of correct from candidate i on
RECURSIVE Rerank(_, _, _, _, _, _, _)
Rerank(self, vendor_name, address, candidates, i, best, best_score) ==
    IF i > Len(candidates)
    THEN [best |-> best, best_score |-> best_score]
    ELSE LET score == _score(self, vendor_name, address, candidates[i])
         IN  IF Better(score, best_score)
             THEN Rerank(self, vendor_name, address, candidates, i + 1,
                         Some(candidates[i]), score)
             ELSE Rerank(self, vendor_name, address, candidates, i + 1,
                         best, best_score)

\* for comparison: a no-match result that reports the lowercased inputs
NoMatchLowered(vendor_name, address) ==
    [original_vendor |-> Lower(vendor_name), original_address |-> Lower(address),
     corrected_address |-> None, corrected_city |-> None,
     corrected_postcode |-> None, corrected_country |-> None,
     confidence |-> 0, matched |-> FALSE]

\* for comparison: a no-match result that hands the input address back as
\* the corrected one
NoMatchEchoing(vendor_name, address) ==
    [original_vendor |-> vendor_name, original_address |-> address,
     corrected_address |-> Some(address), corrected_city |-> None,
     corrected_postcode |-> None, corrected_country |-> None,
     confidence |-> 0, matched |-> FALSE]

\* AddressMatcher._no_match
_no_match(vendor_name, address) ==
    [original_vendor |-> vendor_name, original_address |-> address,
     corrected_address |-> None, corrected_city |-> None,
     corrected_postcode |-> None, corrected_country |-> None,
     confidence |-> 0, matched |-> FALSE]

\* for comparison: a result whose confidence is the score cut to two decimals
MatchResultRounded(vendor_name, address, best, best_score) ==
    [original_vendor |-> vendor_name, original_address |-> address,
     corrected_address |-> Some(best.address), corrected_city |-> best.city,
     corrected_postcode |-> best.postcode, corrected_country |-> best.country,
     confidence |-> (best_score \div 10000) * 10000, matched |-> TRUE]

\* the CorrectionResult correct builds for an accepted candidate
MatchResult(vendor_name, address, best, best_score) ==
    [original_vendor |-> vendor_name, original_address |-> address,
     corrected_address |-> Some(best.address), corrected_city |-> best.city,
     corrected_postcode |-> best.postcode, corrected_country |-> best.country,
     confidence |-> best_score, matched |-> TRUE]

\* for comparison: a gate that also rejects a score equal to the threshold
RejectedAtThreshold(self, best, best_score) ==
    best = None \/ best_score <= self.confidence_threshold * 10000

\* for comparison: a gate that compares with the default threshold, whatever
\* the matcher was configured with
RejectedAtDefault(self, best, best_score) ==
    best = None \/ best_score < default_threshold * 10000

\* the gate of correct: reject when nothing was selected or the best score
\* is below the threshold
Rejected(self, best, best_score) ==
    best = None \/ best_score < self.confidence_threshold * 10000

\* correct after the retrieval returned candidates
CorrectFrom(self, vendor_name, address, candidates) ==
    IF candidates = << >>
    THEN _no_match(vendor_name, address)
    ELSE LET r == Rerank(self, vendor_name, address, candidates, 1,
                         None, initial_best_score)
         IN  IF Rejected(self, r.best, r.best_score)
             THEN _no_match(vendor_name, address)
             ELSE MatchResult(vendor_name, address, r.best[1], r.best_score)

(***************************************************************************)
(* The pgvector store (db.py): one table address_references.               *)
(***************************************************************************)
NoTable == [exists |-> FALSE, dimensions |-> 0, rows |-> << >>]

\* for comparison: a build that leaves the existing table in place
KeepTables(tbl) == tbl

\* db.drop_tables: DROP TABLE IF EXISTS
drop_tables(tbl) == NoTable

\* db.create_tables: CREATE TABLE IF NOT EXISTS ... embedding vector(dimensions)
create_tables(tbl, dimensions) ==
    IF tbl.exists THEN tbl
    ELSE [exists |-> TRUE, dimensions |-> dimensions, rows |-> << >>]

\* one inserted row; rec.get(key) is None for a key the record lacks
RowOf(id, rec, emb) ==
    [id |-> id, vendor_name |-> rec.vendor_name, address |-> rec.address,
     city |-> rec.city, postcode |-> rec.postcode, country |-> rec.country,
     embedding |-> emb]

\* db.insert_references: one INSERT per zip(records, embeddings), one commit;
\* an INSERT the table refuses (no table, wrong vector length) raises and
\* nothing is committed
insert_references(tbl, records, embeddings) ==
    LET z   == Zip(records, embeddings)
        bad == ~tbl.exists \/ \E i \in 1..Len(z) : Len(z[i][2]) # tbl.dimensions
        n   == Len(tbl.rows)
    IN  IF bad /\ Len(z) > 0
        THEN [error |-> "StoreError", table |-> tbl]
        ELSE [error |-> "none",
              table |-> [tbl EXCEPT !.rows =
                            tbl.rows \o [i \in 1..Len(z) |-> RowOf(n + i, z[i][1], z[i][2])]]]

\* one row of a search_similar result
CandidateOf(row, similarity) ==
    [id |-> row.id, vendor_name |-> row.vendor_name, address |-> row.address,
     city |-> row.city, postcode |-> row.postcode, country |-> row.country,
     similarity |-> similarity]

\* similarities (hundredths) the store may report
Sims == {-50, 100}

\* db.search_similar: what the call may give.  The store is outside the
\* program: the call may raise (connection lost, no table, a query vector of
\* another length), and otherwise returns at most top_k distinct rows, in
\* descending similarity, with the similarity the index computed.
SearchResponses(tbl, query_embedding, top_k) ==
    LET n  == Len(tbl.rows)
        ok == tbl.exists /\ Len(query_embedding) = tbl.dimensions
        lists == UNION {
            {c \in [1..len -> (1..n) \X Sims] :
                /\ \A i, j \in 1..len : i < j =>
                      /\ c[i][1] # c[j][1]
                      /\ c[i][2] >= c[j][2]}
            : len \in 0..Min(top_k, n)}
    IN  {[error |-> "StoreError", candidates |-> << >>]}
        \cup (IF ok
              THEN {[error |-> "none",
                     candidates |-> [i \in 1..Len(c) |->
                                       CandidateOf(tbl.rows[c[i][1]], c[i][2])]]
                    : c \in lists}
              ELSE {})


(***************************************************************************)
(* State.                                                                  *)
(***************************************************************************)
VARIABLES
    vecs,       \* the vectorizer objects: 1 the constructed one, 2 the loaded one
    files,      \* the model directory: tfidf.joblib and svd.joblib
    table,      \* the store's table address_references
    matcher,    \* the AddressMatcher
    storeLog,   \* the store calls the last operation issued, in order
    last,       \* the last operation: its arguments and what it returned or raised
    probe,      \* the first transform_one call on an object since it was fitted
    reqs        \* the correction requests running concurrently, one per thread

vars == <<vecs, files, table, matcher, storeLog, last, probe, sklearn_resets, reqs>>

NoMatcher ==
    [exists |-> FALSE, vectorizer |-> 0, top_k |-> 0, confidence_threshold |-> 0,
     vendor_weight |-> 0, address_weight |-> 0, embedding_weight |-> 0]

\* AddressMatcher.__init__
NewMatcher(vectorizer, top_k, confidence_threshold, w) ==
    [exists |-> TRUE, vectorizer |-> vectorizer, top_k |-> top_k,
     confidence_threshold |-> confidence_threshold,
     vendor_weight |-> w[1], address_weight |-> w[2], embedding_weight |-> w[3]]

NoResult == _no_match(<< >>, << >>)

NoLast ==
    [op |-> "init", vec |-> 0, error |-> "none",
     vendor_names |-> << >>, addresses |-> << >>,
     value |-> 0, vectors |-> << >>,
     store |-> "not called", candidates |-> << >>, result |-> NoResult]

\* other: a transform call with other arguments came after the remembered one
NoProbe == [set |-> FALSE, vec |-> 0, vendor_name |-> << >>, address |-> << >>,
            vector |-> << >>, other |-> FALSE]

\* the threads that may each run one correction request
ReqIds == {1, 2}

\* a thread that has not called correct.  vec0 and matcher0 keep the shared
\* objects as they were when the thread called correct.
NoReq ==
    [pc |-> "idle", vendor_name |-> << >>, address |-> << >>,
     vec0 |-> NoVectorizer, matcher0 |-> NoMatcher,
     query_vec |-> << >>, response |-> [error |-> "StoreError", candidates |-> << >>],
     error |-> "none", result |-> NoResult]

Init ==
    /\ \E n \in NComponents, r \in NgramRanges :
          vecs = [i \in VecIds |-> IF i = 1 THEN NewVectorizer(n, r) ELSE NoVectorizer]
    /\ files = NoFiles
    /\ table = NoTable
    /\ matcher = NoMatcher
    /\ storeLog = << >>
    /\ last = NoLast
    /\ probe = NoProbe
    /\ sklearn_resets \in BOOLEAN
    /\ reqs = [r \in ReqIds |-> NoReq]

\* the probe is dropped when fit is called on its object or the object is
\* replaced
ProbeAfter(i, called) == IF probe.set /\ probe.vec = i /\ called THEN NoProbe ELSE probe

\* the probe after a transform call on object i with these arguments
ProbeSeen(i, vendor_names, addresses) ==
    IF /\ probe.set
       /\ probe.vec = i
       /\ <<vendor_names, addresses>> # << <<probe.vendor_name>>, <<probe.address>> >>
    THEN [probe EXCEPT !.other = TRUE]
    ELSE probe

(***************************************************************************)
(* Operations.                                                             *)
(***************************************************************************)
\* vectorizer.fit(vendor_names, addresses) on object i
FitAct(i, vendor_names, addresses) ==
    /\ vecs[i].exists
    /\ \E f \in {Fit(vecs[i], vendor_names, addresses)} :
          /\ vecs' = [vecs EXCEPT ![i] = f.vec]
          /\ probe' = ProbeAfter(i, TRUE)
          /\ last' = [NoLast EXCEPT !.op = "fit", !.vec = i, !.error = f.error,
                                    !.vendor_names = vendor_names,
                                    !.addresses = addresses]
    /\ storeLog' = << >>
    /\ UNCHANGED <<files, table, matcher, sklearn_resets, reqs>>

\* vectorizer.transform(vendor_names, addresses) on object i
TransformAct(i, vendor_names, addresses) ==
    /\ vecs[i].exists
    /\ \E t \in {Transform(vecs[i], vendor_names, addresses)} :
          /\ vecs' = [vecs EXCEPT ![i] = t.vec]
          /\ last' = [NoLast EXCEPT !.op = "transform", !.vec = i,
                                    !.error = t.error,
                                    !.vendor_names = vendor_names,
                                    !.addresses = addresses,
                                    !.vectors = t.vectors]
    /\ probe' = ProbeSeen(i, vendor_names, addresses)
    /\ storeLog' = << >>
    /\ UNCHANGED <<files, table, matcher, sklearn_resets, reqs>>

\* vectorizer.transform_one(vendor_name, address) on object i; with
\* remember, the probe keeps the first call that returns
TransformOneAct(i, vendor_name, address, remember) ==
    /\ vecs[i].exists
    /\ \E t \in {TransformOne(vecs[i], vendor_name, address)} :
          /\ vecs' = [vecs EXCEPT ![i] = t.vec]
          /\ last' = [NoLast EXCEPT !.op = "transform_one", !.vec = i,
                                    !.error = t.error,
                                    !.vendor_names = <<vendor_name>>,
                                    !.addresses = <<address>>,
                                    !.vectors = IF t.error = "none"
                                                THEN <<t.vector>> ELSE << >>]
          /\ probe' = IF remember /\ ~probe.set /\ t.error = "none"
                      THEN [set |-> TRUE, vec |-> i, vendor_name |-> vendor_name,
                            address |-> address, vector |-> t.vector,
                            other |-> FALSE]
                      ELSE ProbeSeen(i, <<vendor_name>>, <<address>>)
    /\ storeLog' = << >>
    /\ UNCHANGED <<files, table, matcher, sklearn_resets, reqs>>

\* vectorizer.dimensions on object i
DimensionsAct(i) ==
    /\ vecs[i].exists
    /\ \E d \in {Dimensions(vecs[i])} :
          last' = [NoLast EXCEPT !.op = "dimensions", !.vec = i,
                                 !.error = d.error, !.value = d.value]
    /\ storeLog' = << >>
    /\ UNCHANGED <<vecs, files, table, matcher, probe, sklearn_resets, reqs>>

\* vectorizer.save(path) on object i
SaveAct(i) ==
    /\ vecs[i].exists
    /\ files' = Save(vecs[i])
    /\ storeLog' = << >>
    /\ last' = [NoLast EXCEPT !.op = "save", !.vec = i]
    /\ UNCHANGED <<vecs, table, matcher, probe, sklearn_resets, reqs>>

\* loaded = AddressVectorizer.load(path): object 2 is the new object; a
\* matcher built on the object it replaces is no longer followed
LoadAct ==
    /\ \E l \in {Load(files)} :
          /\ vecs' = IF l.error = "none" THEN [vecs EXCEPT ![2] = l.vec] ELSE vecs
          /\ matcher' = IF l.error = "none" /\ matcher.vectorizer = 2
                        THEN NoMatcher ELSE matcher
          /\ probe' = ProbeAfter(2, l.error = "none")
          /\ last' = [NoLast EXCEPT !.op = "load", !.vec = 2, !.error = l.error]
    /\ storeLog' = << >>
    /\ UNCHANGED <<files, table, sklearn_resets, reqs>>

\* matcher = AddressMatcher(vectorizer, conn, top_k=..., ...)
NewMatcherAct(i, top_k, confidence_threshold, w) ==
    /\ vecs[i].exists
    /\ matcher' = NewMatcher(i, top_k, confidence_threshold, w)
    /\ storeLog' = << >>
    /\ last' = [NoLast EXCEPT !.op = "new_matcher", !.vec = i]
    /\ UNCHANGED <<vecs, files, table, probe, sklearn_resets, reqs>>

\* for comparison: a matcher that calls the store again after an error
SearchAttemptsRetrying(response) == IF response.error # "none" THEN 2 ELSE 1

\* how many times correct calls db.search_similar for one request
SearchAttempts(response) == 1

\* the search_similar calls of one request
SearchCalls(self, response) ==
    [k \in 1..SearchAttempts(response) |->
        [op |-> "search_similar", arg |-> self.top_k]]

\* correct once transform_one has returned or raised (q): one retrieval,
\* rerank, gate.  The error of transform_one or of the store is raised to
\* the caller.
Retrieve(self, q, vendor_name, address, response) ==
    IF q.error # "none"
    THEN [error |-> q.error, vec |-> q.vec, calls |-> << >>,
          candidates |-> << >>, result |-> NoResult]
    ELSE IF response.error # "none"
    THEN [error |-> response.error, vec |-> q.vec,
          calls |-> SearchCalls(self, response),
          candidates |-> << >>, result |-> NoResult]
    ELSE [error |-> "none", vec |-> q.vec,
          calls |-> SearchCalls(self, response),
          candidates |-> response.candidates,
          result |-> CorrectFrom(self, vendor_name, address, response.candidates)]

\* AddressMatcher.correct on vectorizer object v
Correct(self, v, vendor_name, address, response) ==
    Retrieve(self, TransformOne(v, vendor_name, address), vendor_name, address,
             response)

\* the responses the store may give to the embedded query q
ResponsesTo(q, tbl, top_k) ==
    IF q.error # "none"
    THEN {[error |-> "StoreError", candidates |-> << >>]}
    ELSE SearchResponses(tbl, q.vector, top_k)

\* matcher.correct(vendor_name, address)
CorrectAct(vendor_name, address) ==
    /\ matcher.exists
    /\ \E v \in {vecs[matcher.vectorizer]} :
       \E response \in ResponsesTo(TransformOne(v, vendor_name, address), table,
                                   matcher.top_k) :
       \E c \in {Correct(matcher, v, vendor_name, address, response)} :
          /\ vecs' = [vecs EXCEPT ![matcher.vectorizer] = c.vec]
          /\ storeLog' = c.calls
          /\ last' = [NoLast EXCEPT !.op = "correct",
                                    !.vec = matcher.vectorizer,
                                    !.error = c.error,
                                    !.vendor_names = <<vendor_name>>,
                                    !.addresses = <<address>>,
                                    !.store = IF c.calls = << >> THEN "not called"
                                              ELSE response.error,
                                    !.candidates = c.candidates,
                                    !.result = c.result]
    /\ probe' = ProbeSeen(matcher.vectorizer, <<vendor_name>>, <<address>>)
    /\ UNCHANGED <<files, table, matcher, sklearn_resets, reqs>>

(***************************************************************************)
(* correct with db.search_similar patched to return a given list, as the   *)
(* tests of the matcher do (tests/test_matcher.py).                        *)
(***************************************************************************)
MaxCandidates == 2

\* _make_candidate(vendor, address, city, postcode, country, similarity)
_make_candidate(rec, id, similarity) ==
    CandidateOf(RowOf(id, rec, << >>), similarity)

\* R1's address under a vendor name close to R1's, and under an unrelated one
R4 == Rec(<<"a", "b", "c">>, R1.address, Some("W"), Some("7"), Some("U"))
R6 == Rec(<<"x">>, R1.address, Some("Z"), Some("8"), Some("U"))

\* a row as a dict that has no "similarity" key
Unranked(rec, id) ==
    [id |-> id, vendor_name |-> rec.vendor_name, address |-> rec.address,
     city |-> rec.city, postcode |-> rec.postcode, country |-> rec.country]

\* the rows a patched search_similar returns: R1 at either similarity, its
\* duplicate and the two other vendors at the greatest one, R3 unranked
MockCandidates ==
    {_make_candidate(R1, 1, s) : s \in Sims}
    \cup {_make_candidate(R2, 2, 100),
          _make_candidate(R4, 3, 100),
          _make_candidate(R6, 4, 100)}
    \cup {Unranked(R3, 5)}

\* mock_search.return_value: up to MaxCandidates candidates, in descending
\* similarity as search_similar orders them
MockLists ==
    UNION {{c \in [1..len -> MockCandidates] :
               \A i, j \in 1..len : i < j =>
                   /\ c[i].id # c[j].id
                   /\ Similarity(c[i]) >= Similarity(c[j])}
           : len \in 0..MaxCandidates}

\* weights the constructor takes: the defaults, and weights that sum to 3
AnyWeights == Weights \cup { <<100, 100, 100>> }

\* matcher.correct(vendor_name, address) with search_similar returning
\* candidates
CorrectMockedAct(vendor_name, address, candidates) ==
    /\ matcher.exists
    /\ \E v \in {vecs[matcher.vectorizer]} :
       \E c \in {Correct(matcher, v, vendor_name, address,
                         [error |-> "none", candidates |-> candidates])} :
          /\ vecs' = [vecs EXCEPT ![matcher.vectorizer] = c.vec]
          /\ storeLog' = c.calls
          /\ last' = [NoLast EXCEPT !.op = "correct",
                                    !.vec = matcher.vectorizer,
                                    !.error = c.error,
                                    !.vendor_names = <<vendor_name>>,
                                    !.addresses = <<address>>,
                                    !.store = IF c.calls = << >> THEN "not called"
                                              ELSE "none",
                                    !.candidates = c.candidates,
                                    !.result = c.result]
    /\ probe' = ProbeSeen(matcher.vectorizer, <<vendor_name>>, <<address>>)
    /\ UNCHANGED <<files, table, matcher, sklearn_resets, reqs>>

\* the matcher on a fitted vectorizer and a patched search_similar
NextRerank ==
    \/ FitAct(1, VendorNames(<<R1, R2, R3>>), Addresses(<<R1, R2, R3>>))
    \/ \E th \in Thresholds, w \in AnyWeights : NewMatcherAct(1, MaxCandidates, th, w)
    \/ \E q \in Queries, l \in MockLists : CorrectMockedAct(q[1], q[2], l)

StoreCall(op, arg) == [op |-> op, arg |-> arg]

\* build_index from drop_tables on, t being what transform returned.
\* fail_at names the store call at which the connection fails (0: none).
IndexEmbeddings(t, tbl, records, fail_at) ==
    LET d   == Dimensions(t.vec)
        t1  == drop_tables(tbl)
        t2  == create_tables(t1, d.value)
        ins == insert_references(t2, records, t.vectors)
        dropped  == <<StoreCall("drop_tables", 0)>>
        created  == Append(dropped, StoreCall("create_tables", d.value))
        inserted == Append(created, StoreCall("insert_references", Len(records)))
    IN  IF t.error # "none"
        THEN [error |-> t.error, vec |-> t.vec, table |-> tbl, calls |-> << >>]
        ELSE IF fail_at = 1
        THEN [error |-> "StoreError", vec |-> t.vec, table |-> tbl, calls |-> dropped]
        ELSE IF d.error # "none"
        THEN [error |-> d.error, vec |-> t.vec, table |-> t1, calls |-> dropped]
        ELSE IF fail_at = 2
        THEN [error |-> "StoreError", vec |-> t.vec, table |-> t1, calls |-> created]
        ELSE IF fail_at = 3 \/ ins.error # "none"
        THEN [error |-> "StoreError", vec |-> t.vec, table |-> t2, calls |-> inserted]
        ELSE [error |-> "none", vec |-> t.vec, table |-> ins.table,
              calls |-> inserted]

\* for comparison: a build that drops the table before it fits
IndexDropFirst(f, tbl, records, fail_at) ==
    IF f.error # "none"
    THEN [error |-> f.error, vec |-> f.vec, table |-> drop_tables(tbl),
          calls |-> <<StoreCall("drop_tables", 0)>>]
    ELSE IndexEmbeddings(Transform(f.vec, VendorNames(records), Addresses(records)),
                         drop_tables(tbl), records, fail_at)

\* build_index once fit has returned or raised (f)
IndexFitted(f, tbl, records, fail_at) ==
    IF f.error # "none"
    THEN [error |-> f.error, vec |-> f.vec, table |-> tbl, calls |-> << >>]
    ELSE IndexEmbeddings(Transform(f.vec, VendorNames(records), Addresses(records)),
                         tbl, records, fail_at)

\* build_index(conn, vectorizer, records): fit, transform, drop_tables,
\* create_tables, insert_references.  An error of any step is raised and the
\* later steps do not run.
BuildIndex(v, tbl, records, fail_at) ==
    IndexFitted(Fit(v, VendorNames(records), Addresses(records)),
                tbl, records, fail_at)

\* build_index(conn, vectorizer, records) with object i
BuildIndexAct(i, records, fail_at) ==
    /\ vecs[i].exists
    /\ \E b \in {BuildIndex(vecs[i], table, records, fail_at)} :
          /\ vecs' = [vecs EXCEPT ![i] = b.vec]
          /\ table' = b.table
          /\ probe' = ProbeAfter(i, TRUE)
          /\ storeLog' = b.calls
          /\ last' = [NoLast EXCEPT !.op = "build_index", !.vec = i,
                                    !.error = b.error,
                                    !.vendor_names = VendorNames(records),
                                    !.addresses = Addresses(records)]
    /\ UNCHANGED <<files, matcher, sklearn_resets, reqs>>

(***************************************************************************)
(* Concurrent correction requests: each thread runs correct once, and the  *)
(* threads interleave between the statements of correct.                   *)
(***************************************************************************)
Idle == \A r \in ReqIds : reqs[r].pc = "idle"

\* thread r calls matcher.correct(vendor_name, address)
ReqCall(r, vendor_name, address) ==
    /\ matcher.exists
    /\ reqs[r].pc = "idle"
    /\ reqs' = [reqs EXCEPT ![r] = [NoReq EXCEPT !.pc = "called",
                                                !.vendor_name = vendor_name,
                                                !.address = address,
                                                !.vec0 = vecs[matcher.vectorizer],
                                                !.matcher0 = matcher]]
    /\ UNCHANGED <<vecs, files, table, matcher, storeLog, last, probe, sklearn_resets>>

\* the thread's state once transform_one has returned or raised (q)
Embedded(req, q) ==
    IF q.error # "none"
    THEN [req EXCEPT !.pc = "done", !.error = q.error]
    ELSE [req EXCEPT !.pc = "embedded", !.query_vec = q.vector]

\* query_vec = self.vectorizer.transform_one(vendor_name, address)
ReqEmbed(r) ==
    /\ reqs[r].pc = "called"
    /\ \E q \in {TransformOne(vecs[matcher.vectorizer], reqs[r].vendor_name,
                               reqs[r].address)} :
          /\ vecs' = [vecs EXCEPT ![matcher.vectorizer] = q.vec]
          /\ reqs' = [reqs EXCEPT ![r] = Embedded(reqs[r], q)]
    /\ UNCHANGED <<files, table, matcher, storeLog, last, probe, sklearn_resets>>

\* the thread's state once search_similar has returned or raised
Retrieved(req, response) ==
    IF response.error # "none"
    THEN [req EXCEPT !.pc = "done", !.error = response.error, !.response = response]
    ELSE [req EXCEPT !.pc = "retrieved", !.response = response]

\* candidates = db.search_similar(self.conn, query_vec, top_k=self.top_k)
ReqSearch(r) ==
    /\ reqs[r].pc = "embedded"
    /\ \E response \in SearchResponses(table, reqs[r].query_vec, matcher.top_k) :
          reqs' = [reqs EXCEPT ![r] = Retrieved(reqs[r], response)]
    /\ UNCHANGED <<vecs, files, table, matcher, storeLog, last, probe, sklearn_resets>>

\* the rest of correct: the empty check, the rerank loop, the gate, the result
ReqRerank(r) ==
    /\ reqs[r].pc = "retrieved"
    /\ reqs' = [reqs EXCEPT ![r] =
                  [reqs[r] EXCEPT !.pc = "done",
                                  !.result = CorrectFrom(matcher, reqs[r].vendor_name,
                                                         reqs[r].address,
                                                         reqs[r].response.candidates)]]
    /\ UNCHANGED <<vecs, files, table, matcher, storeLog, last, probe, sklearn_resets>>

\* an index build and a matcher, then concurrent requests against them
NextConc ==
    \/ Idle /\ \E c \in Corpora : BuildIndexAct(1, c, 0)
    \/ Idle /\ \E th \in Thresholds, w \in Weights : NewMatcherAct(1, 1, th, w)
    \/ \E r \in ReqIds, q \in Queries : ReqCall(r, q[1], q[2])
    \/ \E r \in ReqIds : ReqEmbed(r)
    \/ \E r \in ReqIds : ReqSearch(r)
    \/ \E r \in ReqIds : ReqRerank(r)

\* the vectorizer's life: fit, transform, dimensions, save, load
NextVec ==
    \/ \E p \in ListPairs : FitAct(1, p[1], p[2])
    \/ \E i \in VecIds, p \in ListPairs : TransformAct(i, p[1], p[2])
    \/ \E i \in VecIds, q \in Queries : TransformOneAct(i, q[1], q[2], TRUE)
    \/ \E i \in VecIds : DimensionsAct(i)
    \/ \E i \in VecIds : SaveAct(i)
    \/ LoadAct

SpecVec == Init /\ [][NextVec]_vars

\* index build and correction requests
NextMatch ==
    \/ \E c \in Corpora, fail_at \in 0..3 : BuildIndexAct(1, c, fail_at)
    \/ \E k \in TopKs, th \in Thresholds, w \in Weights : NewMatcherAct(1, k, th, w)
    \/ \E q \in Queries : CorrectAct(q[1], q[2])

\* the matcher's vectorizer is constructed with the default n-gram range
InitMatch == Init /\ vecs[1].ngram_range = default_ngram_range

SpecMatch == InitMatch /\ [][NextMatch]_vars

\* the matcher under test: one requested dimensionality is enough here
InitRerank == InitMatch /\ vecs[1].n_components = 1

SpecRerank == InitRerank /\ [][NextRerank]_vars

\* concurrent requests on the matcher's vectorizer
SpecConc == InitMatch /\ [][NextConc]_vars

\* fit, save and load in any order, fit on the loaded object included, with
\* dimensions and transform_one read in between
NextLife ==
    \/ \E i \in VecIds, c \in Corpora : FitAct(i, VendorNames(c), Addresses(c))
    \/ \E i \in VecIds, q \in Queries : TransformOneAct(i, q[1], q[2], FALSE)
    \/ \E i \in VecIds : DimensionsAct(i)
    \/ \E i \in VecIds : SaveAct(i)
    \/ LoadAct

SpecLife == Init /\ [][NextLife]_vars

\* every operation on the constructed object, with the default matcher
\* configuration and a store that does not fail during the build
Next ==
    \/ \E c \in Corpora : FitAct(1, VendorNames(c), Addresses(c))
    \/ \E q \in Queries : TransformAct(1, <<q[1]>>, <<q[2]>>)
    \/ \E q \in Queries : TransformOneAct(1, q[1], q[2], FALSE)
    \/ DimensionsAct(1)
    \/ SaveAct(1)
    \/ \E c \in Corpora : BuildIndexAct(1, c, 0)
    \/ \E w \in Weights : NewMatcherAct(1, 1, default_threshold, w)
    \/ \E q \in Queries : CorrectAct(q[1], q[2])

Spec == InitMatch /\ [][Next]_vars

(***************************************************************************)
(* Properties of AddressMatcher.correct, checked under SpecMatch.          *)
(***************************************************************************)
\* C1: correct returns matched = true if and only if the store returned at
\* least one candidate and some candidate's fused score (hence the greatest
\* one) is >= confidence_threshold; a greatest score equal to the threshold
\* is accepted, any greatest score below it is rejected.
C1_MatchedIffThreshold ==
    (last.op = "correct" /\ last.error = "none") =>
        (last.result.matched <=>
            /\ last.candidates # << >>
            /\ \E i \in 1..Len(last.candidates) :
                  _score(matcher, last.vendor_names[1], last.addresses[1],
                         last.candidates[i])
                      >= matcher.confidence_threshold * 10000)

\* a match accepted with a confidence exactly equal to the threshold
C1_Witness ==
    /\ last.op = "correct"
    /\ last.error = "none"
    /\ last.result.matched
    /\ last.result.confidence = matcher.confidence_threshold * 10000

\* C2: every unmatched result of correct, whether the store returned no
\* candidate or the best score was below the threshold, has confidence 0, no
\* corrected address, city, postcode or country, and original_vendor and
\* original_address equal to the arguments of the call.
C2_UnmatchedResult ==
    (last.op = "correct" /\ last.error = "none" /\ ~last.result.matched) =>
        /\ last.result.confidence = 0
        /\ last.result.corrected_address = None
        /\ last.result.corrected_city = None
        /\ last.result.corrected_postcode = None
        /\ last.result.corrected_country = None
        /\ last.result.original_vendor = last.vendor_names[1]
        /\ last.result.original_address = last.addresses[1]

\* a request in capitals rejected although the store returned candidates
C2_Witness ==
    /\ last.op = "correct"
    /\ last.error = "none"
    /\ ~last.result.matched
    /\ last.candidates # << >>
    /\ Lower(last.vendor_names[1]) # last.vendor_names[1]

\* C3: when correct accepts a match, the corrected address, city, postcode
\* and country are the fields of one and the same returned candidate, the
\* confidence is that candidate's fused score unchanged, and original_vendor
\* and original_address are the arguments of the call.
C3_FieldsOfOneCandidate ==
    (last.op = "correct" /\ last.error = "none" /\ last.result.matched) =>
        \E i \in 1..Len(last.candidates) :
            /\ last.result.corrected_address = Some(last.candidates[i].address)
            /\ last.result.corrected_city = last.candidates[i].city
            /\ last.result.corrected_postcode = last.candidates[i].postcode
            /\ last.result.corrected_country = last.candidates[i].country
            /\ last.result.confidence =
                  _score(matcher, last.vendor_names[1], last.addresses[1],
                         last.candidates[i])
            /\ last.result.original_vendor = last.vendor_names[1]
            /\ last.result.original_address = last.addresses[1]

\* a match chosen among two candidates that differ in city and postcode
C3_Witness ==
    /\ last.op = "correct"
    /\ last.error = "none"
    /\ last.result.matched
    /\ Len(last.candidates) = 2
    /\ last.candidates[1].city # last.candidates[2].city
    /\ last.candidates[1].postcode # last.candidates[2].postcode

C19_BuildIndexSequence ==
    [][last'.op = "build_index" =>
          \E c \in Corpora :
              LET D == Dimensions(vecs'[last'.vec]).value
                  full == << StoreCall("drop_tables", 0),
                             StoreCall("create_tables", D),
                             StoreCall("insert_references", Len(c)) >>
                  emb == Transform(vecs'[last'.vec], VendorNames(c), Addresses(c)).vectors
              IN  /\ last'.vendor_names = VendorNames(c)
                  /\ last'.addresses = Addresses(c)
                  /\ last'.error \in {"none", "ValueError", "StoreError"}
                  /\ \E n \in 0..3 : storeLog' = SubSeq(full, 1, n)
                  /\ last'.error = "ValueError" =>
                        /\ storeLog' = << >>
                        /\ table' = table
                  /\ last'.error = "none" =>
                        /\ storeLog' = full
                        /\ table'.exists
                        /\ table'.dimensions = D
                        /\ Len(table'.rows) = Len(c)
                        /\ \A i \in 1..Len(c) :
                              /\ table'.rows[i] = RowOf(i, c[i], emb[i])
                              /\ Len(table'.rows[i].embedding) = D]_vars

\* a build of three records that succeeded, with fewer dimensions than
\* requested
C19_Witness ==
    /\ last.op = "build_index"
    /\ last.error = "none"
    /\ Len(table.rows) = 3
    /\ table.rows[3].vendor_name = R3.vendor_name
    /\ table.dimensions = 2
    /\ vecs[1].n_components = MaxComponents

\* C12 as stated: in every result of correct, each of corrected_address,
\* corrected_city, corrected_postcode and corrected_country is present if
\* and only if matched is true.
C12_AsStated ==
    (last.op = "correct" /\ last.error = "none") =>
        /\ last.result.corrected_address # None <=> last.result.matched
        /\ last.result.corrected_city # None <=> last.result.matched
        /\ last.result.corrected_postcode # None <=> last.result.matched
        /\ last.result.corrected_country # None <=> last.result.matched

\* C12: in every result of correct, corrected_address is present if and only
\* if matched is true; corrected_city, corrected_postcode and
\* corrected_country are absent when matched is false, and when matched is
\* true each is present exactly when a returned candidate with the corrected
\* address has that field.
C12_PresentFields ==
    (last.op = "correct" /\ last.error = "none") =>
        LET res == last.result
            n == Len(last.candidates)
        IN  /\ res.corrected_address # None <=> res.matched
            /\ ~res.matched =>
                  /\ res.corrected_city = None
                  /\ res.corrected_postcode = None
                  /\ res.corrected_country = None
            /\ res.matched =>
                  \E i \in 1..n :
                      /\ res.corrected_address = Some(last.candidates[i].address)
                      /\ res.corrected_city = last.candidates[i].city
                      /\ res.corrected_postcode = last.candidates[i].postcode
                      /\ res.corrected_country = last.candidates[i].country

\* an accepted match on a reference record that has no postcode
C12_Witness ==
    /\ last.op = "correct"
    /\ last.error = "none"
    /\ last.result.matched
    /\ last.result.corrected_city # None
    /\ last.result.corrected_postcode = None

(***************************************************************************)
(* Properties of the whole system, checked under Spec.                     *)
(***************************************************************************)
\* C5: on a vectorizer that was never fitted, transform, transform_one and
\* dimensions raise RuntimeError, and correct with such a vectorizer raises
\* that error, without calling the store, instead of returning a result.
C5_UnfittedRaises ==
    (/\ last.op \in {"transform", "transform_one", "dimensions", "correct"}
     /\ ~vecs[last.vec].is_fitted) =>
        /\ last.error = "RuntimeError"
        /\ last.op = "correct" => storeLog = << >>

\* a correction request on a matcher whose vectorizer was never fitted
C5_Witness ==
    /\ last.op = "correct"
    /\ ~vecs[last.vec].is_fitted
    /\ last.vendor_names = << <<"B">> >>

\* C10: once a vectorizer is fitted, no later operation on it (transform,
\* transform_one, dimensions, save, correct, build_index, a further fit)
\* changes its vocabulary and weights or its projection.
C10_FittedStateImmutable ==
    [][vecs[1].is_fitted =>
          /\ vecs'[1].tfidf = vecs[1].tfidf
          /\ vecs'[1].svd = vecs[1].svd]_vars

(***************************************************************************)
(* Properties of AddressVectorizer, checked under SpecVec.                 *)
(***************************************************************************)
\* C6: fit called with zero documents raises ValueError (the empty training
\* set), and leaves a vectorizer that was not fitted before unfitted:
\* transform and dimensions still raise RuntimeError after it.
C6_EmptyFitFails ==
    [][(last'.op = "fit" /\ Zip(last'.vendor_names, last'.addresses) = << >>) =>
          /\ last'.error = "ValueError"
          /\ ~vecs[last'.vec].is_fitted =>
                /\ ~vecs'[last'.vec].is_fitted
                /\ Dimensions(vecs'[last'.vec]).error = "RuntimeError"
                /\ \A q \in Queries :
                      Transform(vecs'[last'.vec], <<q[1]>>, <<q[2]>>).error
                          = "RuntimeError"]_vars

\* a fit with zero documents on a vectorizer that is not fitted
C6_Witness ==
    /\ last.op = "fit"
    /\ Zip(last.vendor_names, last.addresses) = << >>
    /\ last.vendor_names # << >>
    /\ ~vecs[last.vec].is_fitted

C8_SaveLoadRoundTrip ==
    (last.op = "load" /\ files = Save(vecs[1]) /\ vecs[1].is_fitted) =>
        /\ last.error = "none"
        /\ Dimensions(vecs[2]) = Dimensions(vecs[1])
        /\ vecs[2].ngram_range = vecs[1].ngram_range
        /\ \A p \in ListPairs \cup {<< <<q[1]>>, <<q[2]>> >> : q \in Queries} :
              /\ Transform(vecs[2], p[1], p[2]).error
                    = Transform(vecs[1], p[1], p[2]).error
              /\ Transform(vecs[2], p[1], p[2]).vectors
                    = Transform(vecs[1], p[1], p[2]).vectors

\* a load of the files saved from an object whose dimensionality was clamped
C8_Witness ==
    /\ last.op = "load"
    /\ last.error = "none"
    /\ files = Save(vecs[1])
    /\ vecs[1].is_fitted
    /\ vecs[1].tfidf.fitted
    /\ vecs[2].n_components < vecs[1].n_components

\* C9: for a fixed fitted state, transform_one is deterministic: as long as
\* fit is not called on the object, a call with the arguments of an earlier
\* call returns the vector the earlier call returned, whatever transform
\* calls came in between.
C9_TransformDeterministic ==
    probe.set =>
        /\ TransformOne(vecs[probe.vec], probe.vendor_name, probe.address).error
              = "none"
        /\ TransformOne(vecs[probe.vec], probe.vendor_name, probe.address).vector
              = probe.vector
        /\ (/\ last.op = "transform_one"
            /\ last.vec = probe.vec
            /\ last.vendor_names = <<probe.vendor_name>>
            /\ last.addresses = <<probe.address>>) =>
              last.vectors = <<probe.vector>>

\* the remembered call repeated after a transform call with other arguments
C9_Witness ==
    /\ probe.set
    /\ probe.other
    /\ last.op = "transform_one"
    /\ last.vec = probe.vec
    /\ last.vendor_names = <<probe.vendor_name>>
    /\ last.addresses = <<probe.address>>


C11_RequestsIndependent ==
    \A r \in ReqIds :
        LET req == reqs[r]
            q == TransformOne(req.vec0, req.vendor_name, req.address)
            alone == Retrieve(req.matcher0, q, req.vendor_name, req.address,
                              req.response)
        IN  (req.pc # "idle" /\ req.vec0.is_fitted /\ req.vec0.tfidf.fitted) =>
                /\ vecs[req.matcher0.vectorizer] = req.vec0
                /\ matcher = req.matcher0
                /\ req.pc = "done" =>
                      /\ req.response \in ResponsesTo(q, table, req.matcher0.top_k)
                      /\ req.error = alone.error
                      /\ req.result = alone.result

\* two threads have each finished a request, with different inputs, one
\* matched and one not
C11_Witness ==
    /\ reqs[1].pc = "done" /\ reqs[2].pc = "done"
    /\ reqs[1].vec0.is_fitted /\ reqs[1].vec0.tfidf.fitted
    /\ reqs[1].vendor_name # reqs[2].vendor_name
    /\ reqs[1].error = "none" /\ reqs[2].error = "none"
    /\ reqs[1].result.matched /\ ~reqs[2].result.matched

(***************************************************************************)
(* The rerank of correct on given candidate lists, checked under           *)
(* SpecRerank.                                                             *)
(***************************************************************************)
\* C13 as stated: every result of correct has confidence in [0,1], for every
\* configuration with non-negative weights.
C13_AsStated ==
    (last.op = "correct" /\ last.error = "none") =>
        /\ last.result.confidence >= 0
        /\ last.result.confidence <= 1000000

\* C13: every result of correct has confidence between 0 and the sum of the
\* three weights; so within [0,1] when the weights sum to at most 1.
C13_ConfidenceBounded ==
    (last.op = "correct" /\ last.error = "none") =>
        LET sum == matcher.vendor_weight + matcher.address_weight
                   + matcher.embedding_weight
        IN  /\ last.result.confidence >= 0
            /\ last.result.confidence <= sum * 10000
            /\ sum <= 100 => last.result.confidence <= 1000000

\* a match under weights that sum to more than 1, reported with a
\* confidence above 1
C13_Witness ==
    /\ last.op = "correct"
    /\ last.error = "none"
    /\ last.result.matched
    /\ matcher.vendor_weight + matcher.address_weight + matcher.embedding_weight > 100
    /\ last.result.confidence > 1000000

\* thresholds (hundredths) above a confidence c (millionths): the least one,
\* 1.0 and 3.0
RaisedThresholds(c) ==
    {th \in {c \div 10000 + 1, 100, 300} : th * 10000 > c}

\* C14: when correct returned matched = true with confidence c, the same
\* query on the same candidate list under any confidence_threshold greater
\* than c, the rest of the configuration equal, gives matched = false.
C14_MonotonicAcceptance ==
    (last.op = "correct" /\ last.error = "none" /\ last.result.matched) =>
        \A th \in RaisedThresholds(last.result.confidence) :
            ~CorrectFrom([matcher EXCEPT !.confidence_threshold = th],
                         last.vendor_names[1], last.addresses[1],
                         last.candidates).matched

\* a match under the default threshold, of two candidates, with a
\* confidence strictly between the threshold and 1
C14_Witness ==
    /\ last.op = "correct"
    /\ last.error = "none"
    /\ last.result.matched
    /\ Len(last.candidates) = 2
    /\ matcher.confidence_threshold = default_threshold
    /\ last.result.confidence > default_threshold * 10000
    /\ last.result.confidence < 1000000

\* the candidate the rerank loop of the last request ended with
Selected ==
    Rerank(matcher, last.vendor_names[1], last.addresses[1], last.candidates,
           1, None, initial_best_score).best

\* the last request had the default weights and two candidates with the
\* same address text, of which only candidate m has the query's vendor name
VendorScenario(m) ==
    /\ last.op = "correct"
    /\ last.error = "none"
    /\ <<matcher.vendor_weight, matcher.address_weight, matcher.embedding_weight>>
          = <<default_vendor_weight, default_address_weight, default_embedding_weight>>
    /\ Len(last.candidates) = 2
    /\ last.candidates[1].address = last.candidates[2].address
    /\ last.candidates[m].vendor_name = last.vendor_names[1]
    /\ last.candidates[3 - m].vendor_name # last.vendor_names[1]

ScoreOf(i) ==
    _score(matcher, last.vendor_names[1], last.addresses[1], last.candidates[i])

\* C16: of the candidates in the order the store returned them, correct
\* selects the one with the greatest fused score, and among several with
\* the greatest score the earliest one; an accepted result carries that
\* candidate's fields.
C16_FirstGreatestWins ==
    (last.op = "correct" /\ last.error = "none" /\ last.candidates # << >>) =>
        \E i \in 1..Len(last.candidates) :
            /\ \A j \in 1..Len(last.candidates) :
                  /\ ScoreOf(j) <= ScoreOf(i)
                  /\ j < i => ScoreOf(j) < ScoreOf(i)
            /\ Selected = Some(last.candidates[i])
            /\ last.result.matched =>
                  /\ last.result.corrected_city = last.candidates[i].city
                  /\ last.result.corrected_postcode = last.candidates[i].postcode
                  /\ last.result.corrected_country = last.candidates[i].country

\* two candidates with the same greatest score and different details: the
\* first one is reported
C16_Witness ==
    /\ last.op = "correct"
    /\ last.error = "none"
    /\ Len(last.candidates) = 2
    /\ ScoreOf(1) = ScoreOf(2)
    /\ last.candidates[1].city # last.candidates[2].city
    /\ last.result.matched
    /\ last.result.corrected_city = last.candidates[1].city

\* the lexical part of the score the spec gives for candidate i of the last
\* request: both terms by the same ratio, on lowercased strings
LexicalPart(i) ==
    matcher.vendor_weight
        * FuzzRatio(Lower(last.vendor_names[1]), Lower(last.candidates[i].vendor_name))
    + matcher.address_weight
        * FuzzRatio(Lower(last.addresses[1]), Lower(last.candidates[i].address))

\* C17: the fused score of every candidate is vendor_weight * sim(vendors)
\* + address_weight * sim(addresses) + embedding_weight * max(0, similarity),
\* the two lexical similarities taken by the same ratio on lowercased
\* strings; a candidate with a negative similarity or without one scores
\* its lexical part only.
C17_FusedScore ==
    (last.op = "correct" /\ last.error = "none") =>
        \A i \in 1..Len(last.candidates) :
            LET c == last.candidates[i]
                has == "similarity" \in DOMAIN c
            IN  /\ (has /\ c.similarity > 0) =>
                      ScoreOf(i) = LexicalPart(i)
                                   + matcher.embedding_weight * c.similarity * 100
                /\ (~has \/ c.similarity <= 0) => ScoreOf(i) = LexicalPart(i)
                /\ (last.result.matched /\ Selected = Some(c)) =>
                      last.result.confidence = ScoreOf(i)

\* an accepted match on a candidate with a negative similarity, returned
\* after a candidate without a similarity whose vendor name differs from the
\* query's in case
C17_Witness ==
    /\ last.op = "correct"
    /\ last.error = "none"
    /\ Len(last.candidates) = 2
    /\ "similarity" \notin DOMAIN last.candidates[1]
    /\ Lower(last.candidates[1].vendor_name) # last.candidates[1].vendor_name
    /\ ScoreOf(1) > 0
    /\ last.candidates[2].similarity < 0
    /\ Selected = Some(last.candidates[2])
    /\ last.result.matched

\* the other orders in which the store may return the candidates of the last
\* request: the reorderings that are still in descending similarity
RankOrders ==
    LET n == Len(last.candidates)
    IN  {[i \in 1..n |-> last.candidates[p[i]]] :
            p \in {f \in [1..n -> 1..n] :
                      /\ \A i, j \in 1..n : i # j => f[i] # f[j]
                      /\ \A i, j \in 1..n : i < j =>
                            Similarity(last.candidates[f[i]])
                                >= Similarity(last.candidates[f[j]])}}

\* the result of the last request's query on the candidate list l
ResultOn(l) ==
    CorrectFrom(matcher, last.vendor_names[1], last.addresses[1], l)

\* C20: the result of correct -- matched flag, confidence and corrected
\* address, city, postcode and country -- is the same for every rank order
\* the store may return among candidates of equal similarity.
C20_OrderIrrelevant ==
    (last.op = "correct" /\ last.error = "none") =>
        \A l \in RankOrders : ResultOn(l) = last.result


(***************************************************************************)
(* Properties of the fitted flag, checked under SpecLife.                  *)
(***************************************************************************)
\* C21: after any sequence of construct, fit (returning or raising), save
\* and load, an object whose fitted flag is set has a projection (svd is not
\* None): the assertion in dimensions never fails, transform never reaches
\* svd.transform without a projection, and a load of the files saved from a
\* never-fitted object raises instead of yielding an object.
C21_FlaggedHasProjection ==
    /\ \A i \in VecIds :
          (vecs[i].exists /\ vecs[i].is_fitted) => vecs[i].svd.kind # "None"
    /\ last.op = "dimensions" => last.error # "AssertionError"
    /\ last.op = "transform_one" => last.error # "AttributeError"
    /\ (last.op = "load" /\ files.exists /\ JoblibLoad(files.svd).kind = "None") =>
          last.error = "AttributeError"

\* a load of the files saved from a never-fitted object
C21_Witness ==
    /\ last.op = "load"
    /\ last.error = "AttributeError"
    /\ files = Save(vecs[1])
    /\ ~vecs[1].is_fitted
    /\ ~vecs[2].exists

(***************************************************************************)
(* Properties of a failed index build, checked under SpecMatch.            *)
(***************************************************************************)
\* the error build_index meets before its first store call on these records:
\* that of fit, else that of transform on the object fit leaves ("none" when
\* both return)
ErrorBeforeStore(v, records) ==
    LET f == Fit(v, VendorNames(records), Addresses(records))
    IN  IF f.error # "none" THEN f.error
        ELSE Transform(f.vec, VendorNames(records), Addresses(records)).error

\* C22: when build_index fails while fitting or embedding (on an empty
\* record list, for one), it raises that error and has issued no drop,
\* create or insert: the store's table and rows are as they were before the
\* call.
C22_FailedBuildKeepsStore ==
    [][\A c \in Corpora :
          (/\ last'.op = "build_index"
           /\ last'.vendor_names = VendorNames(c)
           /\ last'.addresses = Addresses(c)
           /\ ErrorBeforeStore(vecs[last'.vec], c) # "none") =>
              /\ last'.error = ErrorBeforeStore(vecs[last'.vec], c)
              /\ storeLog' = << >>
              /\ table' = table]_vars

\* a build on the empty record list that raised while the store held the
\* three rows of an earlier build
C22_Witness ==
    /\ last.op = "build_index"
    /\ last.vendor_names = << >>
    /\ last.error = "ValueError"
    /\ storeLog = << >>
    /\ table.exists
    /\ Len(table.rows) = 3
=========================================================================
